---- MODULE Spec2Model ----
(***************************************************************************)
(* A model of loxer: Scanner -> Parser -> eval, driven by run().           *)
(*                                                                         *)
(* The source text is a sequence of one-character strings; byte offset i   *)
(* of the Rust &str is element i + 1 of the sequence (ASCII only, so byte  *)
(* offsets and character offsets coincide).  A panic of the Rust program   *)
(* (out-of-range slice or index) is the outcome "Panic".                   *)
(*                                                                         *)
(* f64 values are modelled as sign + exact rational, with the IEEE special *)
(* values (signed zero, infinities, NaN); rounding of results that are not *)
(* exactly representable is not modelled.                                  *)
(***************************************************************************)
EXTENDS Integers, Sequences, FiniteSets, TLC

VARIABLES
    input,      \* run(): the source text `input`
    lines,      \* run(): the newline offsets computed by count_lines
    parser,     \* run(): the Parser (its Scanner, one-token lookahead, `end`)
    cur,        \* run(): the result the for loop is processing
    pc,         \* run(): "pull" | "process" | "done" | "panic"
    results,    \* history: every result the Parser has yielded, in order
    out         \* standard output: what run() has printed, in order

vars == <<input, lines, parser, cur, pc, results, out>>

-----------------------------------------------------------------------------
(* Characters *)

DQ == "\""
NL == "\n"
NUL == "NUL"    \* the '\0' that Scanner::peek returns at the end of the input

Digits == {"0", "1", "2", "3", "4", "5", "6", "7", "8", "9"}

Letters ==
    {"a", "b", "c", "d", "e", "f", "g", "h", "i", "j", "k", "l", "m",
     "n", "o", "p", "q", "r", "s", "t", "u", "v", "w", "x", "y", "z",
     "A", "B", "C", "D", "E", "F", "G", "H", "I", "J", "K", "L", "M",
     "N", "O", "P", "Q", "R", "S", "T", "U", "V", "W", "X", "Y", "Z"}

Whitespace == {" ", NL, "\t", "\r", "\f"}

Punctuation ==
    {"(", ")", "{", "}", ",", ".", "-", "+", ";", "*", "/", "!", "=", "<", ">",
     DQ, "@", "#"}

AllChars == Digits \cup Letters \cup Whitespace \cup Punctuation \cup {"_"}

is_alphabetic(ch) == ch \in Letters \cup {"_"}

is_alphanumeric(ch) == ch \in Letters \cup Digits \cup {"_"}

AlphanumericChars == {ch \in AllChars : is_alphanumeric(ch)}

Slice(s, from, to) == SubSeq(s, from + 1, to)   \* &s[from..to], 0 <= from <= to <= len

-----------------------------------------------------------------------------
(* Scanner (scanner.rs).  A scanner state is [pos, line]: `chars` is the   *)
(* suffix of the input starting at byte offset pos.                        *)

NewScanner == [pos |-> 0, line |-> 1]

is_empty(src, s) == s.pos >= Len(src)

peek(src, s) == IF s.pos < Len(src) THEN src[s.pos + 1] ELSE NUL

current_index(src, s) == s.pos

next_char(src, s) ==
    IF s.pos < Len(src)
    THEN [pos |-> s.pos + 1,
          line |-> IF src[s.pos + 1] = NL THEN s.line + 1 ELSE s.line]
    ELSE s

\* consume_while(predicate): `allowed` is the set of characters the predicate
\* accepts.  Returns the scanner and the Option<char>: the first rejected
\* character, or "None" at the end of the input.
RECURSIVE consume_while(_, _, _)
consume_while(src, s, allowed) ==
    IF is_empty(src, s) THEN [s |-> s, r |-> "None"]
    ELSE IF peek(src, s) \notin allowed THEN [s |-> s, r |-> peek(src, s)]
    ELSE consume_while(src, next_char(src, s), allowed)

if_peek(src, s, ch, matched, unmatched) ==
    IF peek(src, s) = ch
    THEN [s |-> next_char(src, s), ty |-> matched]
    ELSE [s |-> s, ty |-> unmatched]

number_rest(src, first) ==
    IF first.r = "."
    THEN [s |-> consume_while(src, first.s, Digits).s, ty |-> "Number"]
    ELSE [s |-> first.s, ty |-> "Number"]

number(src, s) == number_rest(src, consume_while(src, s, Digits \cup {"."}))

comment(src, s) ==
    [s |-> consume_while(src, s, AllChars \ {NL}).s, ty |-> "Comment"]

string_rest(src, body) ==
    IF body.r # "None"
    THEN [s |-> next_char(src, body.s), ty |-> "String"]
    ELSE [s |-> body.s, ty |-> "String"]

string(src, s) == string_rest(src, consume_while(src, s, AllChars \ {DQ}))

Keywords ==
    [type : {"And"},    text : {<<"a", "n", "d">>}] \cup
    [type : {"Class"},  text : {<<"c", "l", "a", "s", "s">>}] \cup
    [type : {"Else"},   text : {<<"e", "l", "s", "e">>}] \cup
    [type : {"False"},  text : {<<"f", "a", "l", "s", "e">>}] \cup
    [type : {"For"},    text : {<<"f", "o", "r">>}] \cup
    [type : {"Fun"},    text : {<<"f", "u", "n">>}] \cup
    [type : {"If"},     text : {<<"i", "f">>}] \cup
    [type : {"Nil"},    text : {<<"n", "i", "l">>}] \cup
    [type : {"Or"},     text : {<<"o", "r">>}] \cup
    [type : {"Print"},  text : {<<"p", "r", "i", "n", "t">>}] \cup
    [type : {"Return"}, text : {<<"r", "e", "t", "u", "r", "n">>}] \cup
    [type : {"Super"},  text : {<<"s", "u", "p", "e", "r">>}] \cup
    [type : {"This"},   text : {<<"t", "h", "i", "s">>}] \cup
    [type : {"True"},   text : {<<"t", "r", "u", "e">>}] \cup
    [type : {"Var"},    text : {<<"v", "a", "r">>}] \cup
    [type : {"While"},  text : {<<"w", "h", "i", "l", "e">>}]

\* The match on the identifier's text.
keyword_or_identifier(text) ==
    IF \E k \in Keywords : k.text = text
    THEN (CHOOSE k \in Keywords : k.text = text).type
    ELSE "Identifier"

identifier_rest(src, after, start) ==
    [s |-> after,
     ty |-> keyword_or_identifier(Slice(src, start, current_index(src, after)))]

identifier_or_keyword(src, s, start) ==
    identifier_rest(src, consume_while(src, s, AlphanumericChars).s, start)

\* The Option<Token> None.
NoToken == [value |-> "None", line |-> 0, span |-> [start |-> 0, end |-> 0]]

\* Scanner::next, the match on the first character ch; s1 is the scanner
\* after it.
ScanMatch(src, ch, s1, start) ==
    CASE ch = "/" ->
            IF peek(src, s1) = "/" THEN comment(src, s1)
            ELSE [s |-> s1, ty |-> "Slash"]
      [] ch = "(" -> [s |-> s1, ty |-> "LeftParen"]
      [] ch = ")" -> [s |-> s1, ty |-> "RightParen"]
      [] ch = "{" -> [s |-> s1, ty |-> "LeftBrace"]
      [] ch = "}" -> [s |-> s1, ty |-> "RightBrace"]
      [] ch = "," -> [s |-> s1, ty |-> "Comma"]
      [] ch = "." -> [s |-> s1, ty |-> "Dot"]
      [] ch = "-" -> [s |-> s1, ty |-> "Minus"]
      [] ch = "+" -> [s |-> s1, ty |-> "Plus"]
      [] ch = ";" -> [s |-> s1, ty |-> "Semicolon"]
      [] ch = "*" -> [s |-> s1, ty |-> "Star"]
      [] ch = "!" -> if_peek(src, s1, "=", "BangEqual", "Bang")
      [] ch = "=" -> if_peek(src, s1, "=", "EqualEqual", "Equal")
      [] ch = "<" -> if_peek(src, s1, "=", "LessEqual", "Less")
      [] ch = ">" -> if_peek(src, s1, "=", "GreaterEqual", "Greater")
      [] ch = DQ -> string(src, s1)
      [] ch \in Digits -> number(src, s1)
      [] is_alphabetic(ch) -> identifier_or_keyword(src, s1, start)
      [] OTHER -> [s |-> s1, ty |-> "Unknown"]

\* ScanToken with `end` read before the match instead of after it.
ScanToken_end_before_match(src, m, start, line) ==
    [s |-> m.s,
     tok |-> [value |-> m.ty, line |-> line,
              span |-> [start |-> start, end |-> start]]]

\* Scanner::next, the token built from the match's outcome m.
ScanToken(src, m, start, line) ==
    [s |-> m.s,
     tok |-> [value |-> m.ty, line |-> line,
              span |-> [start |-> start, end |-> current_index(src, m.s)]]]

\* Scanner::next, after the leading whitespace is skipped.
ScanFrom(src, s) ==
    IF is_empty(src, s) THEN [s |-> s, tok |-> NoToken]
    ELSE ScanToken(src,
                   ScanMatch(src, src[s.pos + 1], next_char(src, s),
                             current_index(src, s)),
                   current_index(src, s), s.line)

\* Scanner::next: the scanner after the pull and the token (or NoToken).
ScannerNext(src, s0) == ScanFrom(src, consume_while(src, s0, Whitespace).s)

-----------------------------------------------------------------------------
(* Values (value.rs) and expressions (ast.rs).                             *)
(* A Number is [t, c, neg, n, d]: c = "fin" is the rational (-1)^neg * n/d *)
(* in lowest terms (n = 0, d = 1 is the signed zero), c = "inf" an         *)
(* infinity, c = "nan" NaN.                                                *)

RECURSIVE GCD(_, _)
GCD(a, b) == IF b = 0 THEN a ELSE GCD(b, a % b)

Fin(neg, n, d) ==
    LET g == GCD(n, d)
    IN  [t |-> "Number", c |-> "fin", neg |-> neg, n |-> n \div g, d |-> d \div g]

Inf(neg) == [t |-> "Number", c |-> "inf", neg |-> neg, n |-> 0, d |-> 0]

NaN == [t |-> "Number", c |-> "nan", neg |-> FALSE, n |-> 0, d |-> 0]

StringValue(chars) == [t |-> "String", s |-> chars]

BooleanValue(b) == [t |-> "Boolean", b |-> b]

NilValue == [t |-> "Nil"]

\* Value::ty
ty(value) == value.t

Literal(value) == [e |-> "Literal", v |-> value]

Grouping(x) == [e |-> "Grouping", x |-> x]

Unary(op, x) == [e |-> "Unary", op |-> op, x |-> x]

Binary(op, l, r) == [e |-> "Binary", op |-> op, l |-> l, r |-> r]

-----------------------------------------------------------------------------
(* Parser (parser.rs).  A parser state is [sc, pk, end, log]: sc the       *)
(* Scanner behind the Comment filter, pk the Peekable's buffer (<<>> or    *)
(* one Option<token>), end the field `end`, and log (history) the tokens   *)
(* next_token has consumed in the current attempt.                         *)
(* Every parsing operator returns [p, r]: the parser state after it and    *)
(* its result.  An operator named x_... is the rest of x after the call    *)
(* whose outcome it is given.                                              *)

NewParser == [sc |-> NewScanner, pk |-> <<>>, end |-> 0, log |-> <<>>]

\* Scanner::new(input).filter(|token| token.value != Token::Comment)
RECURSIVE FilterNext(_, _), Filter_pulled(_, _)
Filter_pulled(src, n) ==
    IF n.tok.value = "Comment" THEN FilterNext(src, n.s) ELSE n

FilterNext(src, s) == Filter_pulled(src, ScannerNext(src, s))

Peek_pulled(p, n) ==
    [p |-> [p EXCEPT !.sc = n.s, !.pk = <<n.tok>>], tok |-> n.tok]

\* Peekable::peek
PeekableTokenPeek(src, p) ==
    IF Len(p.pk) > 0 THEN [p |-> p, tok |-> p.pk[1]]
    ELSE Peek_pulled(p, FilterNext(src, p.sc))

Next_pulled(p, n) == [p |-> [p EXCEPT !.sc = n.s], tok |-> n.tok]

\* Peekable::next
PeekableTokenNext(src, p) ==
    IF Len(p.pk) > 0 THEN [p |-> [p EXCEPT !.pk = <<>>], tok |-> p.pk[1]]
    ELSE Next_pulled(p, FilterNext(src, p.sc))

\* Mutant of next_token_map: `end` is not updated.
next_token_map_keeps_end(n) ==
    IF n.tok.value = "None" THEN n
    ELSE [p |-> [n.p EXCEPT !.log = Append(@, n.tok)], tok |-> n.tok]

\* next_token, the closure given to map().
next_token_map(n) ==
    IF n.tok.value = "None" THEN n
    ELSE [p |-> [n.p EXCEPT !.end = n.tok.span.end, !.log = Append(@, n.tok)],
          tok |-> n.tok]

next_token(src, p) == next_token_map(PeekableTokenNext(src, p))

\* The for loop of match_one_of: values is a sequence of <<token, operator>>
\* pairs; the operator of the first pair whose token is `next`, or "None".
FirstMatch(values, next) ==
    IF \E i \in 1..Len(values) : values[i][1] = next
    THEN values[CHOOSE i \in 1..Len(values) :
                    /\ values[i][1] = next
                    /\ \A j \in 1..(i - 1) : values[j][1] # next][2]
    ELSE "None"

match_one_of_peeked(src, pk, values) ==
    IF pk.tok.value = "None" \/ FirstMatch(values, pk.tok.value) = "None"
    THEN [p |-> pk.p, r |-> "None"]
    ELSE [p |-> next_token(src, pk.p).p, r |-> FirstMatch(values, pk.tok.value)]

match_one_of(src, p, values) ==
    match_one_of_peeked(src, PeekableTokenPeek(src, p), values)

Ok(e) == [t |-> "Ok", e |-> e]

Err(kind, expected) == [t |-> "Err", err |-> [kind |-> kind, expected |-> expected]]

Panic == [t |-> "Panic"]

expect_peeked(src, pk, expected) ==
    IF pk.tok.value = expected
    THEN [p |-> next_token(src, pk.p).p, r |-> Ok(<<>>)]
    ELSE [p |-> pk.p, r |-> Err("Expected", expected)]

expect(src, p, expected) == expect_peeked(src, PeekableTokenPeek(src, p), expected)

DigitValue(ch) ==
    CASE ch = "0" -> 0 [] ch = "1" -> 1 [] ch = "2" -> 2 [] ch = "3" -> 3
      [] ch = "4" -> 4 [] ch = "5" -> 5 [] ch = "6" -> 6 [] ch = "7" -> 7
      [] ch = "8" -> 8 [] ch = "9" -> 9

RECURSIVE DecimalValue(_)
DecimalValue(digits) ==
    IF digits = <<>> THEN 0
    ELSE 10 * DecimalValue(SubSeq(digits, 1, Len(digits) - 1))
         + DigitValue(digits[Len(digits)])

RECURSIVE Pow10(_)
Pow10(k) == IF k = 0 THEN 1 ELSE 10 * Pow10(k - 1)

\* str::parse::<f64> on a text of digits and dots (all that Scanner::number
\* produces): digits with at most one '.', and at least one digit.
ParseF64(text) ==
    LET dots == {i \in 1..Len(text) : text[i] = "."}
        digs == {i \in 1..Len(text) : text[i] \in Digits}
    IN  IF Cardinality(dots) > 1 \/ digs = {}
           \/ Cardinality(dots) + Cardinality(digs) # Len(text)
        THEN [ok |-> FALSE, v |-> NaN]
        ELSE LET dot == IF dots = {} THEN Len(text) + 1 ELSE CHOOSE i \in dots : TRUE
                 whole == SubSeq(text, 1, dot - 1)
                 frac == SubSeq(text, dot + 1, Len(text))
             IN  [ok |-> TRUE,
                  v |-> Fin(FALSE, DecimalValue(whole \o frac), Pow10(Len(frac)))]

parse_number_map(parsed) ==
    IF parsed.ok THEN Ok(parsed.v) ELSE Err("MalformedNumber", "None")

parse_number(src, span) ==
    parse_number_map(ParseF64(Slice(src, span.start, span.end)))

ends_with(str, ch) == Len(str) > 0 /\ str[Len(str)] = ch

parse_string(src, span) ==
    IF ~ends_with(Slice(src, span.start, span.end), DQ)
    THEN Err("MalformedString", "None")
    ELSE IF span.start + 1 > span.end - 1 THEN Panic   \* slice start > end
    ELSE Ok(Slice(src, span.start + 1, span.end - 1))

EqualityOperators == << <<"BangEqual", "NotEqual">>, <<"EqualEqual", "Equal">> >>

ComparisonOperators ==
    << <<"Greater", "Greater">>, <<"GreaterEqual", "GreaterEqual">>,
       <<"Less", "Less">>, <<"LessEqual", "LessEqual">> >>

TermOperators == << <<"Minus", "Sub">>, <<"Plus", "Add">> >>

FactorOperators == << <<"Slash", "Div">>, <<"Star", "Mul">> >>

UnaryOperators == << <<"Minus", "Neg">>, <<"Bang", "Not">> >>

RECURSIVE expression(_, _), equality(_, _), comparison(_, _), term(_, _)
RECURSIVE factor(_, _), unary(_, _), primary(_, _), Operand(_, _, _)
RECURSIVE binary(_, _, _, _), binary_left(_, _, _, _), binary_while(_, _, _, _, _)
RECURSIVE binary_matched(_, _, _, _, _), binary_right(_, _, _, _, _, _)
RECURSIVE unary_matched(_, _), primary_token(_, _), primary_inner(_, _)

\* The `operand` closure binary() is given, named by the rule it is.
Operand(src, p, rule) ==
    CASE rule = "comparison" -> comparison(src, p)
      [] rule = "term" -> term(src, p)
      [] rule = "factor" -> factor(src, p)
      [] rule = "unary" -> unary(src, p)

\* binary(): left = operand(self)?, then the while loop with `left` so far.
binary(src, p, rule, operators) ==
    binary_left(src, Operand(src, p, rule), rule, operators)

binary_left(src, left, rule, operators) ==
    IF left.r.t # "Ok" THEN left
    ELSE binary_while(src, left.p, rule, operators, left.r.e)

binary_while(src, p, rule, operators, left) ==
    binary_matched(src, match_one_of(src, p, operators), rule, operators, left)

binary_matched(src, m, rule, operators, left) ==
    IF m.r = "None" THEN [p |-> m.p, r |-> Ok(left)]
    ELSE binary_right(src, Operand(src, m.p, rule), rule, operators, m.r, left)

binary_right(src, right, rule, operators, operator, left) ==
    IF right.r.t # "Ok" THEN right
    ELSE binary_while(src, right.p, rule, operators,
                      Binary(operator, left, right.r.e))

expression(src, p) == equality(src, p)

equality(src, p) == binary(src, p, "comparison", EqualityOperators)

comparison(src, p) == binary(src, p, "term", ComparisonOperators)

term(src, p) == binary(src, p, "factor", TermOperators)

\* Mutant of factor: the term operators are matched at the factor level too.
factor_with_term_operators(src, p) ==
    binary(src, p, "unary", FactorOperators \o TermOperators)

factor(src, p) == binary(src, p, "unary", FactorOperators)

unary_wrap(operator, x) ==
    IF x.r.t # "Ok" THEN x ELSE [p |-> x.p, r |-> Ok(Unary(operator, x.r.e))]

unary_matched(src, m) ==
    IF m.r # "None" THEN unary_wrap(m.r, unary(src, m.p))
    ELSE primary(src, m.p)

unary(src, p) == unary_matched(src, match_one_of(src, p, UnaryOperators))

primary_number(num) == IF num.t = "Ok" THEN Ok(Literal(num.e)) ELSE num

primary_string(str) == IF str.t = "Ok" THEN Ok(Literal(StringValue(str.e))) ELSE str

primary_close(close, inner) ==
    [p |-> close.p,
     r |-> IF close.r.t = "Ok" THEN Ok(Grouping(inner.r.e)) ELSE close.r]

primary_inner(src, inner) ==
    IF inner.r.t # "Ok" THEN inner
    ELSE primary_close(expect(src, inner.p, "RightParen"), inner)

primary_token(src, n) ==
    CASE n.tok.value = "Nil" -> [p |-> n.p, r |-> Ok(Literal(NilValue))]
      [] n.tok.value = "True" -> [p |-> n.p, r |-> Ok(Literal(BooleanValue(TRUE)))]
      [] n.tok.value = "False" -> [p |-> n.p, r |-> Ok(Literal(BooleanValue(FALSE)))]
      [] n.tok.value = "Number" ->
            [p |-> n.p, r |-> primary_number(parse_number(src, n.tok.span))]
      [] n.tok.value = "String" ->
            [p |-> n.p, r |-> primary_string(parse_string(src, n.tok.span))]
      [] n.tok.value = "LeftParen" -> primary_inner(src, expression(src, n.p))
      [] OTHER -> [p |-> n.p, r |-> Err("ExpectedPrimary", "None")]

primary(src, p) == primary_token(src, next_token(src, p))

starts_statement(token) ==
    token \in {"Class", "If", "Var", "For", "Fun", "While", "Print", "Return"}

RECURSIVE synchronize(_, _), synchronize_token(_, _), synchronize_peeked(_, _)
synchronize_peeked(src, pk) ==
    IF pk.tok.value # "None" /\ starts_statement(pk.tok.value) THEN pk.p
    ELSE synchronize(src, pk.p)

synchronize_token(src, n) ==
    IF n.tok.value = "None" THEN n.p
    ELSE IF n.tok.value = "Semicolon" THEN n.p
    ELSE synchronize_peeked(src, PeekableTokenPeek(src, n.p))

synchronize(src, p) == synchronize_token(src, next_token(src, p))

\* Parser::next.  item is [t |-> "None"], [t |-> "Panic"], or the Spanned
\* result [t |-> "Some", value, span] with, as history, the tokens the
\* attempt consumed and how many of them expression() consumed, before any
\* recovery.
ParserNext_item(start, result, p2) ==
    [p |-> p2,
     item |-> [t |-> "Some",
               value |-> result.r,
               span |-> [start |-> start, end |-> p2.end],
               consumed |-> p2.log,
               parsed |-> Len(result.p.log)]]

ParserNext_result(src, start, result) ==
    IF result.r.t = "Panic" THEN [p |-> result.p, item |-> [t |-> "Panic"]]
    ELSE IF result.r.t = "Err"
    THEN ParserNext_item(start, result, synchronize(src, result.p))
    ELSE ParserNext_item(start, result, result.p)

ParserNext_peeked(src, pk) ==
    IF pk.tok.value = "None" THEN [p |-> pk.p, item |-> [t |-> "None"]]
    ELSE ParserNext_result(src, pk.tok.span.start,
                           expression(src, [pk.p EXCEPT !.log = <<>>]))

ParserNext(src, p0) == ParserNext_peeked(src, PeekableTokenPeek(src, p0))

-----------------------------------------------------------------------------
(* f64 arithmetic and comparison, as used by eval.                         *)

Signed(a) == IF a.neg THEN 0 - a.n ELSE a.n

Abs(k) == IF k < 0 THEN 0 - k ELSE k

IsZero(a) == a.c = "fin" /\ a.n = 0

f64_neg(a) == IF a.c = "nan" THEN NaN ELSE [a EXCEPT !.neg = ~a.neg]

f64_add(a, b) ==
    IF a.c = "nan" \/ b.c = "nan" THEN NaN
    ELSE IF a.c = "inf" /\ b.c = "inf" THEN (IF a.neg = b.neg THEN a ELSE NaN)
    ELSE IF a.c = "inf" THEN a
    ELSE IF b.c = "inf" THEN b
    ELSE LET num == Signed(a) * b.d + Signed(b) * a.d
         IN  IF num = 0 THEN Fin(a.neg /\ b.neg, 0, 1)
             ELSE Fin(num < 0, Abs(num), a.d * b.d)

f64_sub(a, b) == f64_add(a, f64_neg(b))

f64_mul(a, b) ==
    IF a.c = "nan" \/ b.c = "nan" THEN NaN
    ELSE IF a.c = "inf" \/ b.c = "inf"
    THEN (IF IsZero(a) \/ IsZero(b) THEN NaN ELSE Inf(a.neg # b.neg))
    ELSE Fin(a.neg # b.neg, a.n * b.n, a.d * b.d)

f64_div(a, b) ==
    IF a.c = "nan" \/ b.c = "nan" THEN NaN
    ELSE IF a.c = "inf" THEN (IF b.c = "inf" THEN NaN ELSE Inf(a.neg # b.neg))
    ELSE IF b.c = "inf" THEN Fin(a.neg # b.neg, 0, 1)
    ELSE IF IsZero(b) THEN (IF IsZero(a) THEN NaN ELSE Inf(a.neg # b.neg))
    ELSE Fin(a.neg # b.neg, a.n * b.d, a.d * b.n)

f64_lt(a, b) ==
    IF a.c = "nan" \/ b.c = "nan" THEN FALSE
    ELSE IF a.c = "inf" THEN a.neg /\ ~(b.c = "inf" /\ b.neg)
    ELSE IF b.c = "inf" THEN ~b.neg
    ELSE Signed(a) * b.d < Signed(b) * a.d

f64_eq(a, b) ==
    IF a.c = "nan" \/ b.c = "nan" THEN FALSE
    ELSE IF a.c = "inf" \/ b.c = "inf" THEN a.c = b.c /\ a.neg = b.neg
    ELSE Signed(a) * b.d = Signed(b) * a.d

\* #[derive(PartialEq)] on Value
ValueEq(a, b) ==
    /\ a.t = b.t
    /\ CASE a.t = "String" -> a.s = b.s
         [] a.t = "Number" -> f64_eq(a, b)
         [] a.t = "Boolean" -> a.b = b.b
         [] a.t = "Nil" -> TRUE

-----------------------------------------------------------------------------
(* Evaluator (interpreter.rs).  A result is [t |-> "Ok", v] or the         *)
(* RuntimeError::TypeError [t |-> "Err", expected, actual]; eval pairs it  *)
(* with `visited`, the literals evaluated, in order (history).             *)

EvalOk(value) == [t |-> "Ok", v |-> value]

TypeError(expected, actual) == [t |-> "Err", expected |-> expected, actual |-> actual]

\* <Number as Variant>::from_value
from_value_Number(value) ==
    IF value.t = "Number" THEN EvalOk(value) ELSE TypeError(<<"Number">>, value)

\* Mutant of is_truthy: the Number zero is falsy too.
is_truthy_zero_falsy(value) ==
    ~(\/ (value.t = "Boolean" /\ value.b = FALSE)
      \/ value.t = "Nil"
      \/ (value.t = "Number" /\ value.c = "fin" /\ value.n = 0))

is_truthy(value) ==
    ~((value.t = "Boolean" /\ value.b = FALSE) \/ value.t = "Nil")

\* The closures eval hands to eval_binary and eval_unary, by operator.
Closure(op, a, b) ==
    CASE op = "Sub" -> f64_sub(a, b)
      [] op = "Div" -> f64_div(a, b)
      [] op = "Mul" -> f64_mul(a, b)
      [] op = "Greater" -> BooleanValue(f64_lt(b, a))
      [] op = "GreaterEqual" -> BooleanValue(f64_lt(b, a) \/ f64_eq(a, b))
      [] op = "Less" -> BooleanValue(f64_lt(a, b))
      [] op = "LessEqual" -> BooleanValue(f64_lt(a, b) \/ f64_eq(a, b))

\* Mutant of eval_binary: the right operand is converted first.
eval_binary_right_first(left, right, op) ==
    IF from_value_Number(right).t # "Ok" THEN from_value_Number(right)
    ELSE IF from_value_Number(left).t # "Ok" THEN from_value_Number(left)
    ELSE EvalOk(Closure(op, left, right))

eval_binary(left, right, op) ==
    LET a == from_value_Number(left)
    IN  IF a.t # "Ok" THEN a
        ELSE LET b == from_value_Number(right)
             IN  IF b.t # "Ok" THEN b
                 ELSE EvalOk(Closure(op, a.v, b.v))

eval_unary(value) ==
    LET a == from_value_Number(value)
    IN  IF a.t # "Ok" THEN a ELSE EvalOk(f64_neg(a.v))

\* Mutant of EvalAdd: a String on the left reports the left operand.
EvalAdd_reports_left(left, right) ==
    IF left.t = "String" /\ right.t = "String" THEN EvalOk(StringValue(left.s \o right.s))
    ELSE IF left.t = "Number" /\ right.t = "Number" THEN EvalOk(f64_add(left, right))
    ELSE IF left.t = "String" THEN TypeError(<<"String">>, left)
    ELSE IF left.t = "Number" THEN TypeError(<<"Number">>, right)
    ELSE TypeError(<<"Number", "String">>, left)

\* The match on (left, right) of BinaryOperator::Add.
EvalAdd(left, right) ==
    IF left.t = "String" /\ right.t = "String" THEN EvalOk(StringValue(left.s \o right.s))
    ELSE IF left.t = "Number" /\ right.t = "Number" THEN EvalOk(f64_add(left, right))
    ELSE IF left.t = "String" THEN TypeError(<<"String">>, right)
    ELSE IF left.t = "Number" THEN TypeError(<<"Number">>, right)
    ELSE TypeError(<<"Number", "String">>, left)

\* The match on the operator of Expression::Binary, both operands evaluated.
EvalBinaryOperator(op, left, right) ==
    CASE op = "Add" -> EvalAdd(left, right)
      [] op = "Equal" -> EvalOk(BooleanValue(ValueEq(left, right)))
      [] op = "NotEqual" -> EvalOk(BooleanValue(~ValueEq(left, right)))
      [] OTHER -> eval_binary(left, right, op)

\* The match on the operator of Expression::Unary, the operand evaluated.
EvalUnaryOperator(op, value) ==
    CASE op = "Neg" -> eval_unary(value)
      [] op = "Not" -> EvalOk(BooleanValue(~is_truthy(value)))

RECURSIVE eval(_)
eval(expr) ==
    CASE expr.e = "Literal" -> [r |-> EvalOk(expr.v), visited |-> <<expr.v>>]
      [] expr.e = "Grouping" -> eval(expr.x)
      [] expr.e = "Unary" ->
            LET value == eval(expr.x)
            IN  IF value.r.t # "Ok" THEN value
                ELSE [r |-> EvalUnaryOperator(expr.op, value.r.v),
                      visited |-> value.visited]
      [] expr.e = "Binary" ->
            LET left == eval(expr.l)
            IN  IF left.r.t # "Ok" THEN left
                ELSE LET right == eval(expr.r)
                         seen == left.visited \o right.visited
                     IN  IF right.r.t # "Ok" THEN [r |-> right.r, visited |-> seen]
                         ELSE [r |-> EvalBinaryOperator(expr.op, left.r.v, right.r.v),
                               visited |-> seen]

-----------------------------------------------------------------------------
(* Driver (main.rs).                                                       *)

RECURSIVE NewlineOffsets(_, _)
NewlineOffsets(src, k) ==
    IF k > Len(src) THEN <<>>
    ELSE (IF src[k] = NL THEN <<k - 1>> ELSE <<>>) \o NewlineOffsets(src, k + 1)

count_lines(src) == <<0 - 1>> \o NewlineOffsets(src, 1)

\* lines.binary_search(&x).unwrap_or_else(|x| x) on the strictly ascending
\* list: the 0-based index of x, or of the place x would be inserted at.
binary_search(list, x) == Cardinality({i \in 1..Len(list) : list[i] < x})

\* println_span: "Panic", or what it prints.
println_span(src, list, span) ==
    LET lowIdx == binary_search(list, span.start)
        highIdx == binary_search(list, span.end - 1)
        low == lowIdx - 1
        high == highIdx - 1
    IN  IF lowIdx = 0 \/ highIdx = 0 THEN Panic            \* usize 0 - 1
        ELSE IF low >= Len(list) \/ high + 1 >= Len(list) THEN Panic   \* lines[..]
        ELSE
        LET line_start == list[low + 1] + 1
            line_end == list[high + 2]
        IN  IF line_start > line_end \/ line_end > Len(src) THEN Panic  \* &input[..]
            ELSE [t |-> "Printed",
                  low |-> low, high |-> high,
                  line_start |-> line_start, line_end |-> line_end,
                  excerpt |-> Slice(src, line_start, line_end),
                  lead |-> IF span.start > line_start THEN span.start - line_start ELSE 0,
                  carets |-> IF span.end > span.start THEN span.end - span.start ELSE 0,
                  trail |-> IF line_end > span.end THEN line_end - span.end ELSE 0]

NoItem == [t |-> "None"]

InitOn(sources) ==
    /\ input \in sources
    /\ lines = count_lines(input)
    /\ parser = NewParser
    /\ cur = NoItem
    /\ pc = "pull"
    /\ results = <<>>
    /\ out = <<>>

Pulled(n) ==
    /\ parser' = n.p
    /\ cur' = n.item
    /\ pc' = CASE n.item.t = "None" -> "done"
               [] n.item.t = "Panic" -> "panic"
               [] OTHER -> "process"
    /\ results' = IF n.item.t = "Some" THEN Append(results, n.item) ELSE results

\* run(): the for loop asks the Parser for its next result.
Pull ==
    /\ pc = "pull"
    /\ Pulled(ParserNext(input, parser))
    /\ UNCHANGED <<input, lines, out>>

\* run(): the two arms that print an error, println_span's outcome given.
Reported(shown, error) ==
    IF shown.t = "Panic"
    THEN /\ out' = out
         /\ pc' = "panic"
    ELSE /\ out' = out \o << [kind |-> "span", v |-> shown],
                             [kind |-> "error", v |-> error] >>
         /\ pc' = "pull"

\* run(): the match on eval's outcome.
Evaluated(ev) ==
    IF ev.t = "Ok"
    THEN /\ out' = Append(out, [kind |-> "value", v |-> ev.v])
         /\ pc' = "pull"
    ELSE Reported(println_span(input, lines, cur.span), ev)

\* run(): the body of the for loop on the result `cur`.
Process ==
    /\ pc = "process"
    /\ IF cur.value.t = "Ok"
       THEN Evaluated(eval(cur.value.e).r)
       ELSE Reported(println_span(input, lines, cur.span), cur.value)
    /\ UNCHANGED <<input, lines, parser, cur, results>>

Next == Pull \/ Process

-----------------------------------------------------------------------------
(* Bounded inputs.                                                         *)

\* Every text made of at most n of the given pieces.
RECURSIVE Texts(_, _)
Texts(pieces, n) ==
    IF n = 0 THEN {<<>>}
    ELSE {t \o q : t \in Texts(pieces, n - 1), q \in pieces \cup {<<>>}}

\* Spec: every source of at most MaxLen characters of SourceChars.
MaxLen == 4

SourceChars ==
    { <<DQ>>, <<"1">>, <<".">>, <<"+">>, <<"(">>, <<")">>, <<";">>, <<" ">>, <<NL>>,
      <<"a">>, <<"/">>, <<"=">> }

Spec == InitOn(Texts(SourceChars, MaxLen)) /\ [][Next]_vars

\* TokenSpec: one line of at most MaxTokens lexemes, a space after each.
MaxTokens == 4

Lexemes ==
    { <<"1", " ">>, <<"2", " ">>, <<"+", " ">>, <<"-", " ">>, <<"(", " ">>,
      <<")", " ">>, <<";", " ">>, <<"p", "r", "i", "n", "t", " ">> }

TokenSpec ==
    InitOn({t \o <<NL>> : t \in Texts(Lexemes, MaxTokens)}) /\ [][Next]_vars

\* PrecedenceSpec: one line, a literal followed by at most MaxOperators
\* (binary operator, literal) pairs.
MaxOperators == 2

PrecedenceLiterals == { <<"2">>, <<"3">>, <<"4">> }

BinaryLexemes ==
    { <<"!", "=">>, <<"=", "=">>, <<">">>, <<">", "=">>, <<"<">>, <<"<", "=">>,
      <<"-">>, <<"+">>, <<"/">>, <<"*">> }

RECURSIVE Chains(_, _, _)
Chains(literals, operators, n) ==
    IF n = 0 THEN literals
    ELSE Chains(literals, operators, n - 1) \cup
         {c \o o \o l : c \in Chains(literals, operators, n - 1),
                        o \in operators, l \in literals}

PrecedenceSpec ==
    InitOn({c \o <<NL>> : c \in Chains(PrecedenceLiterals, BinaryLexemes, MaxOperators)})
    /\ [][Next]_vars

\* EvalSpec: one line, either `a op b` with a and b literals of every type
\* under at most MaxPrefix unary operators, or a chain of number literals
\* with at most MaxComparisons relational operators.
MaxPrefix == 1

MaxComparisons == 2

ComparisonLexemes == { <<">">>, <<">", "=">>, <<"<">>, <<"<", "=">> }

EvalLiterals ==
    { <<"0">>, <<"1">>, <<DQ, DQ>>, <<DQ, "a", DQ>>, <<"t", "r", "u", "e">>,
      <<"f", "a", "l", "s", "e">>, <<"n", "i", "l">> }

ChainLiterals == { <<"0">>, <<"1">>, <<"2">> }

Prefixed(literals, n) ==
    {pre \o l : pre \in Texts({<<"-">>, <<"!">>}, n), l \in literals}

EvalSources ==
    Prefixed(EvalLiterals, MaxPrefix)
    \cup {a \o o \o b : a \in Prefixed(EvalLiterals, MaxPrefix), o \in BinaryLexemes,
                        b \in Prefixed(EvalLiterals, MaxPrefix)}
    \cup Chains(ChainLiterals, ComparisonLexemes, MaxComparisons)

EvalSpec == InitOn({t \o <<NL>> : t \in EvalSources}) /\ [][Next]_vars

\* ScanSpec: every source of at most MaxScanLen characters of ScanChars, the
\* characters that start or end each kind of token the Scanner builds from
\* more than one character.
MaxScanLen == 4

ScanChars ==
    { <<DQ>>, <<"1">>, <<".">>, <<"/">>, <<"=">>, <<"a">>, <<" ">>, <<NL>> }

ScanSpec == InitOn(Texts(ScanChars, MaxScanLen)) /\ [][Next]_vars

-----------------------------------------------------------------------------
(* Operators the properties are stated with.                               *)

\* Every token the Parser is offered for src (comments filtered out).
RECURSIVE TokensFrom(_, _)
TokensFrom(src, s) ==
    LET n == FilterNext(src, s)
    IN  IF n.tok.value = "None" THEN <<>> ELSE <<n.tok>> \o TokensFrom(src, n.s)

AllTokens(src) == TokensFrom(src, NewScanner)

\* Every result a Parser over src yields when pulled until None (or a panic).
RECURSIVE ParseFrom(_, _)
ParseFrom(src, p) ==
    LET n == ParserNext(src, p)
    IN  IF n.item.t = "Some" THEN <<n.item>> \o ParseFrom(src, n.p) ELSE <<>>

ParseAll(src) == ParseFrom(src, NewParser)

StatementKeywords == {"Class", "If", "Var", "For", "Fun", "While", "Print", "Return"}

IsSeparator(tok) == tok.value = "Semicolon" \/ tok.value \in StatementKeywords

\* The subexpressions of an expression, itself included.
RECURSIVE Nodes(_)
Nodes(expr) ==
    {expr} \cup
    CASE expr.e = "Literal" -> {}
      [] expr.e = "Grouping" -> Nodes(expr.x)
      [] expr.e = "Unary" -> Nodes(expr.x)
      [] expr.e = "Binary" -> Nodes(expr.l) \cup Nodes(expr.r)

\* Every subexpression of every expression the Parser has yielded.
YieldedNodes ==
    UNION {Nodes(results[i].value.e) :
           i \in {j \in 1..Len(results) : results[j].value.t = "Ok"}}

\* The number of tokens the results before the i-th consumed.
RECURSIVE ConsumedBefore(_)
ConsumedBefore(i) ==
    IF i <= 1 THEN 0 ELSE ConsumedBefore(i - 1) + Len(results[i - 1].consumed)

Text(chars) == chars \o <<NL>>

-----------------------------------------------------------------------------
(* C1 *)

\* A malformed expression: no separator token in it, and parsed alone it is
\* one failed attempt.
Malformed(src) ==
    /\ \A i \in 1..Len(AllTokens(src)) : ~IsSeparator(AllTokens(src)[i])
    /\ Len(ParseAll(src)) = 1
    /\ ParseAll(src)[1].value.t = "Err"

\* A valid expression: parsed alone it is one successful attempt.
Valid(src) == Len(ParseAll(src)) = 1 /\ ParseAll(src)[1].value.t = "Ok"

\* The k-th token of src is a separator with a malformed expression before
\* it and a valid expression after it.
IsolationShape(src, k) ==
    /\ IsSeparator(AllTokens(src)[k])
    /\ Malformed(Slice(src, 0, AllTokens(src)[k].span.start))
    /\ Valid(Slice(src, AllTokens(src)[k].span.end, Len(src)))

\* C1: Parser isolation.  When the source is a malformed expression, then a
\* Semicolon or statement keyword, then a valid expression, the Parser yields
\* exactly two results, a ParseError and then the valid expression, whose
\* value is the value it has when parsed alone.
C1_ParserIsolation ==
    pc = "done" =>
        \A k \in 1..Len(AllTokens(input)) :
            IsolationShape(input, k) =>
                /\ Len(results) = 2
                /\ results[1].value.t = "Err"
                /\ results[2].value.t = "Ok"
                /\ eval(results[2].value.e).r =
                   eval(ParseAll(Slice(input, AllTokens(input)[k].span.end,
                                       Len(input)))[1].value.e).r

-----------------------------------------------------------------------------
(* C2 *)

\* C2: No abort on any input.  Pulling a result from Scanner -> Parser never
\* aborts: the loop of run() is never left by a panic of Parser::next (eval
\* has no failing operation other than the RuntimeError it returns).
C2_NoAbort == ~(pc = "panic" /\ cur.t = "Panic")

-----------------------------------------------------------------------------
(* C3 *)

\* The values run() prints for a sequence of Parser results, if nothing stops
\* the loop: one per expression that evaluates successfully, in order.
RECURSIVE ValuesOf(_)
ValuesOf(items) ==
    IF items = <<>> THEN <<>>
    ELSE (IF items[1].value.t = "Ok" /\ eval(items[1].value.e).r.t = "Ok"
          THEN <<eval(items[1].value.e).r.v>> ELSE <<>>) \o ValuesOf(Tail(items))

RECURSIVE Printed(_)
Printed(lines_out) ==
    IF lines_out = <<>> THEN <<>>
    ELSE (IF lines_out[1].kind = "value" THEN <<lines_out[1].v>> ELSE <<>>)
         \o Printed(Tail(lines_out))

\* C3: Failure isolation in run().  Once run() has stopped, every result the
\* Parser yields for the source has been processed, and the values printed
\* are those of all the expressions that parse and evaluate successfully:
\* an earlier parse or runtime error stops nothing.
C3_DriverIsolation ==
    pc \in {"done", "panic"} =>
        /\ results = ParseAll(input)
        /\ Printed(out) = ValuesOf(ParseAll(input))

-----------------------------------------------------------------------------
(* C4 *)

\* What recovery discards per the stop rule, of the tokens `rest` not yet
\* consumed at the error: up to and including the first Semicolon, or up to
\* but excluding the first statement keyword, whichever comes first.
RECURSIVE Discarded(_)
Discarded(rest) ==
    IF rest = <<>> THEN <<>>
    ELSE IF rest[1].value = "Semicolon" THEN <<rest[1]>>
    ELSE IF rest[1].value \in StatementKeywords THEN <<>>
    ELSE <<rest[1]>> \o Discarded(Tail(rest))

\* The tokens the i-th result consumed during recovery, and the tokens of the
\* source not yet consumed when its parse error was raised.
Recovered(i) ==
    SubSeq(results[i].consumed, results[i].parsed + 1, Len(results[i].consumed))

Unconsumed(i) ==
    SubSeq(AllTokens(input), ConsumedBefore(i) + results[i].parsed + 1,
           Len(AllTokens(input)))

\* C4: Synchronization stop rule.  After every parse error, recovery discards
\* the not yet consumed tokens up to and including the first Semicolon or up
\* to but excluding the first statement keyword, whichever comes first; so no
\* statement keyword is consumed by recovery.
C4_SynchronizationStopRule ==
    \A i \in 1..Len(results) :
        results[i].value.t = "Err" =>
            /\ Recovered(i) = Discarded(Unconsumed(i))
            /\ \A k \in 1..Len(Recovered(i)) :
                   Recovered(i)[k].value \notin StatementKeywords

-----------------------------------------------------------------------------
(* C5 *)

\* C5: Result span exactness.  Every result's span starts at the start of the
\* first token its attempt consumed and ends at the end of the last token it
\* consumed (recovery included); the tokens consumed are the next tokens of
\* the source; 0 <= start <= end <= len(source); and successive spans do not
\* overlap.
C5_SpanExactness ==
    \A i \in 1..Len(results) :
        /\ Len(results[i].consumed) >= 1
        /\ results[i].consumed =
           SubSeq(AllTokens(input), ConsumedBefore(i) + 1,
                  ConsumedBefore(i) + Len(results[i].consumed))
        /\ results[i].span.start = results[i].consumed[1].span.start
        /\ results[i].span.end =
           results[i].consumed[Len(results[i].consumed)].span.end
        /\ 0 <= results[i].span.start
        /\ results[i].span.start <= results[i].span.end
        /\ results[i].span.end <= Len(input)
        /\ i > 1 => results[i].span.start >= results[i - 1].span.end

\* A failed attempt that consumed tokens during recovery, followed by another
\* result.
C5_Witness ==
    \E i \in 1..Len(results) :
        /\ i < Len(results)
        /\ results[i].value.t = "Err"
        /\ Len(results[i].consumed) > results[i].parsed
        /\ results[i + 1].value.t = "Ok"

-----------------------------------------------------------------------------
(* C6 *)

\* A String token with no closing quote: no double quote after its first.
IsUnterminated(src, tok) ==
    /\ tok.value = "String"
    /\ \A j \in (tok.span.start + 2)..tok.span.end : src[j] # DQ

\* C6: Unterminated string.  A String token with no closing quote covers the
\* rest of the input, parsing it does not abort, and the result of the
\* attempt that starts with it is the ParseError MalformedString; and a
\* string literal with its closing quote has as value exactly the characters
\* strictly between its two quotes.
C6_UnterminatedString ==
    /\ \A k \in 1..Len(AllTokens(input)) :
           IsUnterminated(input, AllTokens(input)[k]) =>
               /\ AllTokens(input)[k].span.end = Len(input)
               /\ ~(pc = "panic" /\ cur.t = "Panic")
               /\ \A i \in 1..Len(results) :
                      results[i].consumed[1] = AllTokens(input)[k] =>
                          results[i].value = Err("MalformedString", "None")
    /\ \A i \in 1..Len(results) :
           (/\ results[i].value.t = "Ok"
            /\ results[i].consumed[1].value = "String"
            /\ results[i].value.e.e = "Literal") =>
               /\ input[results[i].consumed[1].span.start + 1] = DQ
               /\ input[results[i].consumed[1].span.end] = DQ
               /\ results[i].value.e.v =
                  StringValue(SubSeq(input, results[i].consumed[1].span.start + 2,
                                     results[i].consumed[1].span.end - 1))

-----------------------------------------------------------------------------
(* C7 *)

LiteralTokens == {"Number", "String", "True", "False", "Nil"}

\* The binary operator a token stands for, and its precedence level
\* (1 binds loosest).
OperatorOf(token) ==
    CASE token = "BangEqual" -> "NotEqual"
      [] token = "EqualEqual" -> "Equal"
      [] token = "Greater" -> "Greater"
      [] token = "GreaterEqual" -> "GreaterEqual"
      [] token = "Less" -> "Less"
      [] token = "LessEqual" -> "LessEqual"
      [] token = "Minus" -> "Sub"
      [] token = "Plus" -> "Add"
      [] token = "Slash" -> "Div"
      [] token = "Star" -> "Mul"

Level(token) ==
    CASE token \in {"BangEqual", "EqualEqual"} -> 1
      [] token \in {"Greater", "GreaterEqual", "Less", "LessEqual"} -> 2
      [] token \in {"Minus", "Plus"} -> 3
      [] token \in {"Slash", "Star"} -> 4

BinaryTokens ==
    {"BangEqual", "EqualEqual", "Greater", "GreaterEqual", "Less", "LessEqual",
     "Minus", "Plus", "Slash", "Star"}

IsLiteral(src, tok) ==
    /\ tok.value \in LiteralTokens
    /\ tok.value = "Number" => ParseF64(Slice(src, tok.span.start, tok.span.end)).ok
    /\ tok.value = "String" =>
           tok.span.end - tok.span.start >= 2 /\ src[tok.span.end] = DQ

LiteralValue(src, tok) ==
    CASE tok.value = "Number" -> ParseF64(Slice(src, tok.span.start, tok.span.end)).v
      [] tok.value = "String" ->
            StringValue(Slice(src, tok.span.start + 1, tok.span.end - 1))
      [] tok.value = "True" -> BooleanValue(TRUE)
      [] tok.value = "False" -> BooleanValue(FALSE)
      [] tok.value = "Nil" -> NilValue

\* Literals separated by binary operators, no parentheses.
IsChain(src, toks) ==
    /\ Len(toks) % 2 = 1
    /\ \A k \in 1..Len(toks) :
           IF k % 2 = 1 THEN IsLiteral(src, toks[k])
           ELSE toks[k].value \in BinaryTokens

\* The reference tree of a chain: split at the last operator of the loosest
\* level present.
RECURSIVE ReferenceTree(_, _)
ReferenceTree(src, toks) ==
    IF Len(toks) = 1 THEN Literal(LiteralValue(src, toks[1]))
    ELSE LET ops == {k \in 1..Len(toks) : k % 2 = 0}
             loosest == CHOOSE l \in 1..4 :
                            /\ \E k \in ops : Level(toks[k].value) = l
                            /\ \A k \in ops : Level(toks[k].value) >= l
             split == CHOOSE k \in ops :
                          /\ Level(toks[k].value) = loosest
                          /\ \A j \in ops : Level(toks[j].value) = loosest => j <= k
         IN  Binary(OperatorOf(toks[split].value),
                    ReferenceTree(src, SubSeq(toks, 1, split - 1)),
                    ReferenceTree(src, SubSeq(toks, split + 1, Len(toks))))

\* C7: Precedence and associativity.  For every source that is a chain of
\* literals separated by binary operators, the Parser's one result is the
\* reference tree, in which / * bind tighter than - +, those tighter than
\* < <= > >=, those tighter than != ==, and each level associates to the
\* left; `2 + 3 * 4` evaluates to 14 and `2 - 3 - 4` to -5.
C7_Precedence ==
    /\ (Len(results) >= 1 /\ IsChain(input, AllTokens(input))) =>
           /\ Len(results) = 1
           /\ results[1].value = Ok(ReferenceTree(input, AllTokens(input)))
    /\ (pc = "done" /\ input = Text(<<"2", "+", "3", "*", "4">>)) =>
           out = << [kind |-> "value", v |-> Fin(FALSE, 14, 1)] >>
    /\ (pc = "done" /\ input = Text(<<"2", "-", "3", "-", "4">>)) =>
           out = << [kind |-> "value", v |-> Fin(TRUE, 5, 1)] >>

\* `2 + 3 * 4` has been parsed, evaluated and printed.
C7_Witness ==
    /\ pc = "done"
    /\ input = Text(<<"2", "+", "3", "*", "4">>)
    /\ Len(out) = 1
    /\ results[1].value.e.op = "Add"
    /\ results[1].value.e.r.e = "Binary"

-----------------------------------------------------------------------------
(* C8 *)

NumericOperators ==
    {"Sub", "Div", "Mul", "Greater", "GreaterEqual", "Less", "LessEqual"}

IsNumericNode(node) == node.e = "Binary" /\ node.op \in NumericOperators

\* The rule for one Binary node of a numeric operator.
NumericRule(node) ==
    IF eval(node.l).r.t = "Err"
    THEN eval(node) = eval(node.l)      \* the left error; nothing else visited
    ELSE IF eval(node.r).r.t = "Err"
    THEN /\ eval(node).r = eval(node.r).r
         /\ eval(node).visited = eval(node.l).visited \o eval(node.r).visited
    ELSE IF eval(node.l).r.v.t # "Number"
    THEN eval(node).r = [t |-> "Err", expected |-> <<"Number">>,
                         actual |-> eval(node.l).r.v]
    ELSE IF eval(node.r).r.v.t # "Number"
    THEN eval(node).r = [t |-> "Err", expected |-> <<"Number">>,
                         actual |-> eval(node.r).r.v]
    ELSE /\ eval(node).r.t = "Ok"
         /\ eval(node).r.v.t =
            (IF node.op \in {"Sub", "Div", "Mul"} THEN "Number" ELSE "Boolean")

\* C8: Evaluation order and error selection for Sub, Div, Mul and the four
\* relational operators.  Such a node returns the left operand's error if
\* the left fails (the right is then not evaluated), else the right
\* operand's error, else TypeError{expected {Number}} on the left value if it
\* is not a Number, else on the right value, else a Number (Sub, Div, Mul) or
\* a Boolean; `1 < 2 < 0` parses and prints TypeError{expected {Number}} on
\* the intermediate Boolean.
C8_EvaluationOrder ==
    /\ \A node \in YieldedNodes : IsNumericNode(node) => NumericRule(node)
    /\ (pc = "done" /\ input = Text(<<"1", "<", "2", "<", "0">>)) =>
           /\ Len(results) = 1
           /\ results[1].value.t = "Ok"
           /\ Len(out) = 2
           /\ out[2] = [kind |-> "error",
                        v |-> [t |-> "Err", expected |-> <<"Number">>,
                               actual |-> BooleanValue(TRUE)]]

\* A processed numeric node whose left value is not a Number and whose right
\* operand fails, and one whose operands are both not Numbers.
C8_Witness ==
    /\ pc = "done"
    /\ \E node \in YieldedNodes :
           /\ IsNumericNode(node)
           /\ \/ /\ eval(node.l).r.t = "Ok"
                 /\ eval(node.l).r.v.t # "Number"
                 /\ eval(node.r).r.t = "Err"
              \/ /\ eval(node.l).r.t = "Ok"
                 /\ eval(node.r).r.t = "Ok"
                 /\ eval(node.l).r.v.t = "Nil"
                 /\ eval(node.r).r.v.t = "String"

-----------------------------------------------------------------------------
(* C9 *)

\* The rule for one Add node whose operands have the values left and right.
AddRule(node, left, right) ==
    IF left.t = "String" /\ right.t = "String"
    THEN eval(node).r = [t |-> "Ok", v |-> StringValue(left.s \o right.s)]
    ELSE IF left.t = "Number" /\ right.t = "Number"
    THEN /\ eval(node).r.t = "Ok"
         /\ eval(node).r.v.t = "Number"
         /\ (left.c = "fin" /\ right.c = "fin") =>
                /\ eval(node).r.v.c = "fin"
                /\ Signed(eval(node).r.v) * left.d * right.d =
                   (Signed(left) * right.d + Signed(right) * left.d) * eval(node).r.v.d
    ELSE IF left.t = "String"
    THEN eval(node).r = [t |-> "Err", expected |-> <<"String">>, actual |-> right]
    ELSE IF left.t = "Number"
    THEN eval(node).r = [t |-> "Err", expected |-> <<"Number">>, actual |-> right]
    ELSE eval(node).r = [t |-> "Err", expected |-> <<"Number", "String">>,
                         actual |-> left]

\* C9: Binary Add dispatch.  When both operands evaluate successfully, Add
\* returns the concatenation of two Strings, the sum of two Numbers,
\* TypeError{expected {String}, actual right} for a String and a non-String,
\* TypeError{expected {Number}, actual right} for a Number and a non-Number,
\* and TypeError{expected {Number, String}, actual left} when the left is
\* neither.
C9_AddDispatch ==
    \A node \in YieldedNodes :
        (/\ node.e = "Binary"
         /\ node.op = "Add"
         /\ eval(node.l).r.t = "Ok"
         /\ eval(node.r).r.t = "Ok") =>
            AddRule(node, eval(node.l).r.v, eval(node.r).r.v)

\* A processed Add of a String and a non-String.
C9_Witness ==
    /\ pc = "done"
    /\ \E node \in YieldedNodes :
           /\ node.e = "Binary"
           /\ node.op = "Add"
           /\ eval(node.l).r.t = "Ok"
           /\ eval(node.r).r.t = "Ok"
           /\ eval(node.l).r.v.t = "String"
           /\ eval(node.r).r.v.t = "Boolean"

-----------------------------------------------------------------------------
(* C10 *)

\* C10: Unary Not is total.  Whenever its operand evaluates to a Value, Not
\* returns a Boolean, true exactly when the operand is Boolean false or Nil
\* (so the Number 0 and the empty String give false).
C10_NotTotal ==
    \A node \in YieldedNodes :
        (/\ node.e = "Unary"
         /\ node.op = "Not"
         /\ eval(node.x).r.t = "Ok") =>
            eval(node).r =
                [t |-> "Ok",
                 v |-> BooleanValue(eval(node.x).r.v \in
                                        {BooleanValue(FALSE), NilValue})]

\* `!0` has been evaluated and false printed.
C10_Witness ==
    /\ pc = "done"
    /\ input = Text(<<"!", "0">>)
    /\ out = << [kind |-> "value", v |-> BooleanValue(FALSE)] >>

-----------------------------------------------------------------------------
(* C11 *)

\* println_span renders the span: it finds low and high with high + 1 an
\* index of the newline-offset list and line_start <= span.start, and
\* nothing it indexes or slices is out of range.
Renders(src, list, span) ==
    /\ println_span(src, list, span).t = "Printed"
    /\ println_span(src, list, span).low >= 0
    /\ println_span(src, list, span).high + 1 < Len(list)
    /\ println_span(src, list, span).line_start <= span.start
    /\ println_span(src, list, span).line_end <= Len(src)

\* C11: Diagnostics at input boundaries.  For every source text, with or
\* without a trailing newline, and every result span the Parser produces for
\* it (spans starting at 0 and spans ending at the end of the source
\* included), println_span finds its lines and renders the excerpt and the
\* caret line without any out-of-range access.
C11_DiagnosticsAtBoundaries ==
    \A i \in 1..Len(results) : Renders(input, lines, results[i].span)

-----------------------------------------------------------------------------
(* C12 *)

\* What k successive pulls from the Scanner in state s return (NoToken for
\* None).
RECURSIVE Pulls(_, _, _)
Pulls(src, s, k) ==
    IF k = 0 THEN <<>>
    ELSE <<ScannerNext(src, s).tok>> \o Pulls(src, ScannerNext(src, s).s, k - 1)

AsciiWhitespace == {" ", "\t", "\n", "\f", "\r"}

\* src[from..to] is ASCII whitespace only.
OnlyWhitespace(src, from, to) ==
    \A j \in (from + 1)..to : src[j] \in AsciiWhitespace

\* The pulls are n tokens followed by None only, and the n tokens tile the
\* source up to whitespace.
Tiles(src, pulls, n) ==
    /\ n <= Len(src)
    /\ \A k \in 1..Len(pulls) : (pulls[k].value # "None") <=> (k <= n)
    /\ \A k \in 1..n :
           /\ 0 <= pulls[k].span.start
           /\ pulls[k].span.start < pulls[k].span.end
           /\ pulls[k].span.end <= Len(src)
    /\ \A k \in 2..n :
           /\ pulls[k - 1].span.end <= pulls[k].span.start
           /\ OnlyWhitespace(src, pulls[k - 1].span.end, pulls[k].span.start)
    /\ n > 0 => OnlyWhitespace(src, 0, pulls[1].span.start)
    /\ OnlyWhitespace(src, IF n = 0 THEN 0 ELSE pulls[n].span.end, Len(src))

TokenCount(pulls) == Cardinality({k \in 1..Len(pulls) : pulls[k].value # "None"})

\* C12: Lexer totality and progress.  For every source, successive pulls
\* from the Scanner return tokens whose spans are non-empty, lie within the
\* source, strictly increase without overlapping and leave only ASCII
\* whitespace between them, before the first and after the last; after at
\* most len(source) tokens the Scanner returns None, and None on every later
\* pull (so also once the Parser has drained it).
C12_LexerTotality ==
    /\ Tiles(input, Pulls(input, NewScanner, Len(input) + 2),
             TokenCount(Pulls(input, NewScanner, Len(input) + 2)))
    /\ pc = "done" =>
           /\ ScannerNext(input, parser.sc).tok = NoToken
           /\ ScannerNext(input, ScannerNext(input, parser.sc).s).tok = NoToken

\* A drained source with whitespace before its first token and after its
\* last, and at least two tokens.
C12_Witness ==
    /\ pc = "done"
    /\ TokenCount(Pulls(input, NewScanner, Len(input) + 2)) >= 2
    /\ Pulls(input, NewScanner, 1)[1].span.start > 0
    /\ input[Len(input)] \in AsciiWhitespace

-----------------------------------------------------------------------------
(* C13 *)

\* One or more digits, optionally followed by a single '.' and zero or more
\* digits.
IsNumberShape(text) ==
    /\ Len(text) >= 1
    /\ text[1] \in {"0", "1", "2", "3", "4", "5", "6", "7", "8", "9"}
    /\ \A j \in 1..Len(text) :
           text[j] \in {"0", "1", "2", "3", "4", "5", "6", "7", "8", "9", "."}
    /\ Cardinality({j \in 1..Len(text) : text[j] = "."}) <= 1

\* The texts of the Number tokens among the tokens pulled.
NumberTexts(src, pulls) ==
    {SubSeq(src, pulls[k].span.start + 1, pulls[k].span.end) :
         k \in {j \in 1..Len(pulls) : pulls[j].value = "Number"}}

\* C13: Number token shape.  Every Number token's text is one or more digits
\* optionally followed by a single '.' and zero or more digits; a Number
\* token never contains a second '.'.  Stated of the tokens the Scanner has
\* handed to the Parser.
C13_NumberTokenShape ==
    \A i \in 1..Len(results) :
        \A text \in NumberTexts(input, results[i].consumed) : IsNumberShape(text)

-----------------------------------------------------------------------------
(* C14 *)

\* The number of tokens of the stream the results so far have consumed.
ConsumedSoFar == ConsumedBefore(Len(results) + 1)

\* Every result so far consumed at least one token, and the results consumed
\* the token stream in order with no token skipped or taken twice.
EachResultConsumes ==
    /\ \A i \in 1..Len(results) : Len(results[i].consumed) >= 1
    /\ ConsumedSoFar <= Len(AllTokens(input))
    /\ \A i \in 1..Len(results) :
           results[i].consumed =
               SubSeq(AllTokens(input), ConsumedBefore(i) + 1,
                      ConsumedBefore(i) + Len(results[i].consumed))

\* The next call to Parser::next returns None exactly when no token remains.
NoneExactlyAtEnd ==
    (ParserNext(input, parser).item.t = "None")
        <=> (ConsumedSoFar = Len(AllTokens(input)))

\* C14: Parser progress.  Every call to Parser::next that returns a result
\* consumes at least one token of the token stream, and the call returns
\* None exactly when no token remains; so for a stream of N tokens the Parser
\* yields at least one result when N > 0, at most N results, and then
\* terminates (its last call returns None).
C14_ParserProgress ==
    /\ EachResultConsumes
    /\ Len(results) <= Len(AllTokens(input))
    /\ pc = "pull" => NoneExactlyAtEnd
    /\ pc = "done" =>
           /\ ConsumedSoFar = Len(AllTokens(input))
           /\ Len(AllTokens(input)) > 0 => Len(results) >= 1
    /\ cur.t \in {"None", "Some"}      \* each call returns a result or None

====
